---------------------------- MODULE Spec2Model ----------------------------
(***************************************************************************)
(* PlanCast: the Plan Disruption Score engine (calcScore, getGuidance,     *)
(* getExplanation) of the PlanDetails and PlansList screens, the 5-day     *)
(* forecast reduction and the past-plans list of the Insights screen, and  *)
(* the saved locations, the plans and the reminders of the App.            *)
(*                                                                         *)
(* Numbers.  The forecast API reports temperature (deg C), precipitation   *)
(* (mm) and wind speed (km/h) with one decimal.  The model keeps them as   *)
(* integers in tenths.  A Weather record holds temp and rain in tenths and *)
(* wind in hundredths of m/s; the weighted points are kept in units of     *)
(* 1/10000 point, so that the weights 7.56, 1.71 and 3.73 are exact.       *)
(* Arithmetic is exact where the program uses IEEE doubles; on the input   *)
(* values below the two agree, but for the samples of DoubleBelowTie,      *)
(* whose sum is a tie n + 0.5 that the doubles miss.                       *)
(*                                                                         *)
(* Specifications.  Spec is the PlanDetails screen under changing          *)
(* settings, its weather sample drawn from finite values.  SpecInsights is *)
(* the Insights screen, mounted under any risk tolerance, whose responses  *)
(* may lack values at any of the five noon hours.                          *)
(* SpecTolerance is the Insights screen whose risk tolerance changes       *)
(* while it is mounted, SpecSnapshots the plans' saved scores and the      *)
(* past-plans list, SpecLocations the saved locations of the App,          *)
(* SpecPlans the App's plans: the New Plan screen, addPlan, deletePlan,    *)
(* the reminders and the upcoming list, with the clock in steps of two     *)
(* hours.                                                                  *)
(***************************************************************************)
EXTENDS Integers, Sequences, FiniteSets, TLC

VARIABLES
    settings,     \* props: [useAI, riskTolerance, windUnit, tempUnit]
    weather,      \* PlanDetails state: Null or a Weather record
    error,        \* PlanDetails state: '' or the failure text
    fetching,     \* PlanDetails: the mount effect's fetchWeather is in flight
    response,     \* history: Null, or the three noon values of the response
                  \* that fetchWeather stored as weather
    mode,         \* Insights state: "Rule" or "Model"
    location,     \* Insights state: Null or the coordinates
    loading,      \* Insights state
    forecast,     \* Insights state: the sequence of trend rows
    locating,     \* Insights: Null, or the closure of a useCurrentLocation
                  \* call that awaits the position
    requests,     \* Insights: the fetchForecast calls in flight
    last,         \* history: Null, or the response and the closure of the
                  \* fetchForecast call that wrote forecast
    today,        \* the weekday new Date() gives (one day per behaviour)
    plans,        \* App state: the sequence of plans
    now,          \* the clock: what new Date() and Date.now() give
    locations,    \* App state: the sequence of saved locations
    stored,       \* AsyncStorage item 'locations': Null or the saved item
    adding,       \* addLocation calls awaiting setItem: their updated lists
    loadPending,  \* the loadLocations of the mount effect awaits getItem
    screen,       \* App state: "list", "new" or "details"
    selectedPlan, \* App state: Null or a plan
    storedPlans,  \* AsyncStorage item 'plans': Null or the saved item
    saving,       \* savePlans calls awaiting setItem: their newPlans
    addingPlans,  \* addPlan calls that have not reached setScreen('list')
    scheduled,    \* the notifications scheduled
    added,        \* history: the ids of the plans passed to addPlan
    deleted,      \* history: the ids passed to deletePlan
    calls         \* history: the form of the latest handleSave and the
                  \* calls it made

detailsVars == <<weather, error, fetching, response>>
insightsVars == <<mode, location, loading, forecast, locating, requests, last, today>>
planVars == <<screen, selectedPlan, storedPlans, saving, addingPlans, scheduled,
              added, deleted, calls>>
appVars == <<plans, now, locations, stored, adding, loadPending, planVars>>
vars == <<settings, weather, error, fetching, response,
          mode, location, loading, forecast, locating, requests, last, today,
          plans, now, locations, stored, adding, loadPending,
          screen, selectedPlan, storedPlans, saving, addingPlans, scheduled,
          added, deleted, calls>>

-----------------------------------------------------------------------------
(* Inputs: what the forecast API may answer for the noon hour.             *)

\* temperature_2m, tenths of a degree C
TempValues == {-50, 99, 100, 187, 200, 208, 233, 249, 250, 450}
\* precipitation, tenths of a mm
RainValues == {-10, 0, 4, 8, 10, 17, 50, 51, 200}
\* wind_speed_10m, tenths of a km/h (multiples of 0.9 km/h = 0.25 m/s)
WindKmhValues == {0, 9, 45, 90, 216, 900}

\* the null of a "Weather | null" state
Null == [null |-> TRUE]

\* the asynchronous operations of the Insights screen in flight at a time
MaxInFlight == 1

Tolerances == {"Low", "Medium", "High"}
WindUnits == {"ms", "kmh"}
TempUnits == {"C", "F"}

Settings == [useAI : BOOLEAN, riskTolerance : Tolerances,
             windUnit : WindUnits, tempUnit : TempUnits]

-----------------------------------------------------------------------------
(* JavaScript arithmetic on the scaled integers.                           *)

Abs(x) == IF x < 0 THEN -x ELSE x

Min(a, b) == IF a < b THEN a ELSE b

Max(a, b) == IF a > b THEN a ELSE b

\* Math.round of a value given in 1/10000: floor(x + 0.5)
MathRound(x) == (x + 5000) \div 10000

\* the km/h figure kept as it is, in hundredths
KmhToMs_kept(k) == k * 10

\* km/h (tenths) / 3.6, in hundredths of m/s
KmhToMs(k) == (k * 100) \div 36

\* (m/s in hundredths) * 3.6, in thousandths of km/h
MsToKmh(w) == w * 36

\* Number.toFixed(1) of hundredths / thousandths / tenths, result in tenths
ToFixed1Hundredths(x) == (x + 5) \div 10

ToFixed1Thousandths(x) == (x + 50) \div 100

ToFixed1Tenths(x) == x

-----------------------------------------------------------------------------
(* PlanDetails (and, with identical text, PlansList): the scoring core.    *)
(* s is the settings prop the closure sees.                                *)

\* Weather as fetchWeather stores it
Weather(t, r, k) == [temp |-> t, rain |-> r, wind |-> KmhToMs(k)]

\* Weather as the fetchWeather of the plan list stores it
PlansList_Weather(t, r, k) == [temp |-> t, rain |-> r, wind |-> KmhToMs(k)]

\* the weights, in hundredths
\* the rain weight of the first version of the screen
rainW_firstVersion(s) == IF s.useAI THEN 500 ELSE 800

rainW(s) == IF s.useAI THEN 756 ELSE 600

windW(s) == IF s.useAI THEN 171 ELSE 400

tempW(s) == IF s.useAI THEN 373 ELSE 300

\* the unrounded points, in 1/10000 point
rainPts(w, s) == w.rain * rainW(s) * 10

\* the wind points taken from the speed in the unit that is displayed
windPts_displayUnit(w, s) ==
    IF s.windUnit = "kmh" THEN (MsToKmh(w.wind) * windW(s)) \div 10
    ELSE w.wind * windW(s)

windPts(w, s) == w.wind * windW(s)

tempPts(w, s) == Abs(w.temp - 200) * tempW(s) * 10

\* IEEE doubles.  The samples <<useAI, temp, rain, wind>>, among the input
\* values and the temperatures mirrored at 20 degrees, whose weighted sum
\* is a tie n + 0.5 in exact arithmetic and comes out below it as a double:
\* 24.9 - 20 is 4.899999999999999, and 0.8 * 6 + 0 + 4.899999999999999 * 3
\* is 19.499999999999996 (15.1 gives 4.9 and 19.5).
DoubleBelowTie ==
    {<<FALSE, 249, 8, 0>>, <<FALSE, 249, 8, 25>>, <<FALSE, 249, 8, 125>>, <<FALSE, 249, 8, 250>>}

\* what the double sum of a sample lacks, in 1/10000
doubleLoss(useAI, temp, rain, wind) ==
    IF <<useAI, temp, rain, wind>> \in DoubleBelowTie THEN 1 ELSE 0

\* rainPts + windPts + tempPts as the doubles give it
weightedSum(w, s) ==
    rainPts(w, s) + windPts(w, s) + tempPts(w, s) - doubleLoss(s.useAI, w.temp, w.rain, w.wind)

\* calcScore with the three points truncated instead of rounded
calcScore_truncParts(w, s) ==
    [rain  |-> rainPts(w, s) \div 10000,
     wind  |-> windPts(w, s) \div 10000,
     temp  |-> tempPts(w, s) \div 10000,
     total |-> Min(100, Max(0, MathRound(weightedSum(w, s))))]

\* calcScore without the upper clamp
calcScore_noMin(w, s) ==
    [rain  |-> MathRound(rainPts(w, s)),
     wind  |-> MathRound(windPts(w, s)),
     temp  |-> MathRound(tempPts(w, s)),
     total |-> Max(0, MathRound(rainPts(w, s) + windPts(w, s) + tempPts(w, s)))]

\* calcScore with the total truncated instead of rounded
calcScore_floorTotal(w, s) ==
    [rain  |-> MathRound(rainPts(w, s)),
     wind  |-> MathRound(windPts(w, s)),
     temp  |-> MathRound(tempPts(w, s)),
     total |-> Min(100, Max(0, (rainPts(w, s) + windPts(w, s) + tempPts(w, s)) \div 10000))]

calcScore(w, s) ==
    [rain  |-> MathRound(rainPts(w, s)),
     wind  |-> MathRound(windPts(w, s)),
     temp  |-> MathRound(tempPts(w, s)),
     total |-> Min(100, Max(0, MathRound(weightedSum(w, s))))]

\* calcScore(w, m) of the first PlanDetails: the weights 8, 4, 1 and 5, 6, 2
PlanDetailsMode_calcScore_firstVersion(w, m) ==
    LET rW == IF m = "Rule" THEN 800 ELSE 500
        wW == IF m = "Rule" THEN 400 ELSE 600
        tW == IF m = "Rule" THEN 100 ELSE 200
        rP == w.rain * rW * 10
        wP == w.wind * wW
        tP == Abs(w.temp - 200) * tW * 10
    IN  [rain  |-> MathRound(rP),
         wind  |-> MathRound(wP),
         temp  |-> MathRound(tP),
         total |-> Min(100, Max(0, MathRound(rP + wP + tP)))]

\* calcScore(w, m) of the PlanDetails with the mode toggle
PlanDetailsMode_calcScore(w, m) ==
    LET rW == IF m = "Rule" THEN 600 ELSE 756
        wW == IF m = "Rule" THEN 400 ELSE 171
        tW == IF m = "Rule" THEN 300 ELSE 373
        rP == w.rain * rW * 10
        wP == w.wind * wW
        tP == Abs(w.temp - 200) * tW * 10
    IN  [rain  |-> MathRound(rP),
         wind  |-> MathRound(wP),
         temp  |-> MathRound(tP),
         total |-> Min(100, Max(0, MathRound(rP + wP + tP
                       - doubleLoss(m = "Model", w.temp, w.rain, w.wind))))]

\* the pair t with the Low and High rows exchanged
thresholds_exchanged(s) ==
    IF s.riskTolerance = "Low" THEN <<45, 75>>
    ELSE IF s.riskTolerance = "High" THEN <<25, 50>>
    ELSE <<33, 66>>

\* the pair t of getGuidance
thresholds(s) ==
    IF s.riskTolerance = "Low" THEN <<25, 50>>
    ELSE IF s.riskTolerance = "High" THEN <<45, 75>>
    ELSE <<33, 66>>

\* getGuidance with the bounds exclusive
getGuidance_strict(score, s) ==
    IF score < thresholds(s)[1] THEN [text |-> "Keep", color |-> "#22c55e"]
    ELSE IF score < thresholds(s)[2] THEN [text |-> "Adjust", color |-> "#f97316"]
    ELSE [text |-> "Reschedule", color |-> "#ef4444"]

getGuidance(score, s) ==
    IF score <= thresholds(s)[1] THEN [text |-> "Keep", color |-> "#22c55e"]
    ELSE IF score <= thresholds(s)[2] THEN [text |-> "Adjust", color |-> "#f97316"]
    ELSE [text |-> "Reschedule", color |-> "#ef4444"]

\* PlansList computes the colour with a ternary of its own
scoreColor(score, s) ==
    IF score = Null THEN "#999"
    ELSE IF score.total <= thresholds(s)[1] THEN "#22c55e"
    ELSE IF score.total <= thresholds(s)[2] THEN "#f97316"
    ELSE "#ef4444"

\* isRainDominant with strict comparisons
isRainDominant_strict(sc) == sc.rain > sc.wind /\ sc.rain > sc.temp

isRainDominant(sc) == sc.rain >= sc.wind /\ sc.rain >= sc.temp

isWindDominant(sc) == sc.wind >= sc.rain /\ sc.wind >= sc.temp

\* The messages.  A message that cites a value is <<factor, value, unit>>,
\* the value in tenths as toFixed(1) prints it.
Favorable == <<"Weather conditions look favorable.">>

LightRain == <<"Light rain may affect plans.">>

Cold == <<"Cold temperatures may be uncomfortable.">>

Warm == <<"Warm temperatures may be a factor.">>

RainMsg(v) == <<"Rain is the main concern.", v, "mm">>

WindMsg(v, label) == <<"Wind is the main factor.", v, label>>

\* the early exit taken at 15 points too
isFavorable_le(sc) == sc.rain + sc.wind + sc.temp <= 15

\* the early exit looking at rain and wind only
isFavorable_noTemp(sc) == sc.rain + sc.wind < 15

\* "Low score = good weather": the test on totalPoints
isFavorable(sc) == sc.rain + sc.wind + sc.temp < 15

\* the rain branch citing the amount from 5 mm on
rainMessage_ge(w) ==
    IF w.rain >= 50 THEN RainMsg(ToFixed1Tenths(w.rain)) ELSE LightRain

\* the rain branch
rainMessage(w) ==
    IF w.rain > 50 THEN RainMsg(ToFixed1Tenths(w.rain)) ELSE LightRain

\* the wind branch citing the stored m/s value under either label
windMessage_noConversion(w, s) ==
    WindMsg(ToFixed1Hundredths(w.wind),
            IF s.windUnit = "kmh" THEN "km/h" ELSE "m/s")

\* the wind branch
windMessage(w, s) ==
    WindMsg(IF s.windUnit = "kmh" THEN ToFixed1Thousandths(MsToKmh(w.wind))
                                  ELSE ToFixed1Hundredths(w.wind),
            IF s.windUnit = "kmh" THEN "km/h" ELSE "m/s")

\* the cold message up to 10 degrees inclusive
tempMessage_le(w) == IF w.temp <= 100 THEN Cold ELSE Warm

\* the two last returns
tempMessage(w) == IF w.temp < 100 THEN Cold ELSE Warm

getExplanation(w, sc, s) ==
    IF isFavorable(sc) THEN Favorable
    ELSE IF isRainDominant(sc) THEN rainMessage(w)
    ELSE IF isWindDominant(sc) THEN windMessage(w, s)
    ELSE tempMessage(w)

\* what the screen renders
score == IF weather = Null THEN Null ELSE calcScore(weather, settings)

guidance == IF score = Null THEN Null ELSE getGuidance(score.total, settings)

explanation == IF score = Null THEN Null ELSE getExplanation(weather, score, settings)

-----------------------------------------------------------------------------
(* PlanDetails: mount, the one fetch of the mount effect, settings.        *)

DefaultSettings ==
    [useAI |-> FALSE, riskTolerance |-> "Medium", windUnit |-> "ms", tempUnit |-> "C"]

InitDetails ==
    /\ weather = Null
    /\ error = ""
    /\ fetching = TRUE
    /\ response = Null

InitInsights ==
    /\ mode = "Rule"
    /\ location = Null
    /\ loading = FALSE
    /\ forecast = <<>>
    /\ locating = Null
    /\ requests = {}
    /\ last = Null

\* App: the plans list on screen, nothing stored, no call made
InitPlanVars ==
    /\ screen = "list"
    /\ selectedPlan = Null
    /\ storedPlans = Null
    /\ saving = {}
    /\ addingPlans = 0
    /\ scheduled = {}
    /\ added = {}
    /\ deleted = {}
    /\ calls = Null

\* the clock starts here: in steps of two hours, the last step of day 0
StartOfClock == 11

\* App: no plans and no locations before the loads, nothing stored
InitApp ==
    /\ plans = <<>>
    /\ now = StartOfClock
    /\ locations = <<>>
    /\ stored = Null
    /\ adding = {}
    /\ loadPending = FALSE
    /\ InitPlanVars

Init ==
    /\ settings = DefaultSettings
    /\ InitDetails
    /\ InitInsights
    /\ today = 0
    /\ InitApp

\* fetchWeather: the response arrives with the three noon values
FetchWeatherOk ==
    /\ fetching
    /\ \E t \in TempValues, r \in RainValues, k \in WindKmhValues :
          /\ weather' = Weather(t, r, k)
          /\ response' = [temperature_2m |-> t, precipitation |-> r, wind_speed_10m |-> k]
    /\ fetching' = FALSE
    /\ UNCHANGED <<appVars, settings, error, insightsVars>>

\* fetchWeather: fetch or json() rejects
FetchWeatherFail ==
    /\ fetching
    /\ error' = "Failed to load weather"
    /\ fetching' = FALSE
    /\ UNCHANGED <<appVars, settings, weather, response, insightsVars>>

\* back to the list and into a plan again: a fresh PlanDetails
Remount ==
    /\ ~fetching
    /\ weather' = Null
    /\ error' = ""
    /\ fetching' = TRUE
    /\ response' = Null
    /\ UNCHANGED <<appVars, settings, insightsVars>>

\* SettingsScreen: onSave({...settings, field: value})
SaveTempUnit ==
    /\ \E u \in TempUnits : settings' = [settings EXCEPT !.tempUnit = u]
    /\ UNCHANGED <<appVars, detailsVars, insightsVars>>

SaveWindUnit ==
    /\ \E u \in WindUnits : settings' = [settings EXCEPT !.windUnit = u]
    /\ UNCHANGED <<appVars, detailsVars, insightsVars>>

SaveRiskTolerance ==
    /\ \E r \in Tolerances : settings' = [settings EXCEPT !.riskTolerance = r]
    /\ UNCHANGED <<appVars, detailsVars, insightsVars>>

ToggleUseAI ==
    /\ settings' = [settings EXCEPT !.useAI = ~settings.useAI]
    /\ UNCHANGED <<appVars, detailsVars, insightsVars>>

Next ==
    \/ FetchWeatherOk
    \/ FetchWeatherFail
    \/ Remount
    \/ SaveTempUnit
    \/ SaveWindUnit
    \/ SaveRiskTolerance
    \/ ToggleUseAI

Spec == Init /\ [][Next]_vars

-----------------------------------------------------------------------------
(* Insights: the 5-day forecast.  A value read from the response may be    *)
(* undefined, and arithmetic on it gives NaN, so the values of this part   *)
(* are tagged.                                                             *)

Num(n) == [t |-> "number", v |-> n]

Undefined == [t |-> "undefined", v |-> 0]

NaN == [t |-> "NaN", v |-> 0]

IsNum(x) == x.t = "number"

noonIndices == <<12, 36, 60, 84, 108>>

dayNames == <<"Sun", "Mon", "Tue", "Wed", "Thu", "Fri", "Sat">>

\* x / 3.6 of a value that may be undefined
JsKmhToMs(x) == IF IsNum(x) THEN Num(KmhToMs(x.v)) ELSE NaN

\* calcScore(w, m) with the weights of the first version of the screen
Insights_calcScore_oldWeights(w, m) ==
    LET rW == IF m = "Rule" THEN 800 ELSE 500
        wW == IF m = "Rule" THEN 400 ELSE 600
        tW == IF m = "Rule" THEN 100 ELSE 200
    IN  IF IsNum(w.rain) /\ IsNum(w.wind) /\ IsNum(w.temp)
        THEN Num(Min(100, Max(0, MathRound(w.rain.v * rW * 10 + w.wind.v * wW
                                           + Abs(w.temp.v - 200) * tW * 10))))
        ELSE NaN

\* calcScore(w, m) of the Insights screen: one sum, rounded once, clamped;
\* NaN goes through Math.round, Math.max and Math.min
Insights_calcScore(w, m) ==
    LET rW == IF m = "Rule" THEN 600 ELSE 756
        wW == IF m = "Rule" THEN 400 ELSE 171
        tW == IF m = "Rule" THEN 300 ELSE 373
    IN  IF IsNum(w.rain) /\ IsNum(w.wind) /\ IsNum(w.temp)
        THEN Num(Min(100, Max(0, MathRound(w.rain.v * rW * 10 + w.wind.v * wW
                                           + Abs(w.temp.v - 200) * tW * 10
                          - doubleLoss(m = "Model", w.temp.v, w.rain.v, w.wind.v)))))
        ELSE NaN

\* getGuidance(score) of the Insights screen; NaN <= n is false
Insights_getGuidance(sc, s) ==
    IF IsNum(sc) /\ sc.v <= thresholds(s)[1] THEN [text |-> "Keep", color |-> "#22c55e"]
    ELSE IF IsNum(sc) /\ sc.v <= thresholds(s)[2] THEN [text |-> "Adjust", color |-> "#f97316"]
    ELSE [text |-> "Reschedule", color |-> "#ef4444"]

\* the day label of slot i when today is weekday d
dayLabel(i, d) ==
    LET dayName == dayNames[((d + i) % 7) + 1]
    IN  IF i = 1 THEN <<dayName, " (Tomorrow)">>
        ELSE IF i = 0 THEN <<dayName, " (Today)">>
        ELSE <<dayName>>

\* the Weather of the hour idx of a response
slotWeather(data, idx) ==
    [temp |-> data.temperature_2m[idx],
     rain |-> data.precipitation[idx],
     wind |-> JsKmhToMs(data.wind_speed_10m[idx])]

\* the row fetchForecast pushes for slot i
forecastRow(data, i, d, m, s) ==
    LET sc == Insights_calcScore(slotWeather(data, noonIndices[i + 1]), m)
        g  == Insights_getGuidance(sc, s)
    IN  [day |-> dayLabel(i, d), score |-> sc, guidance |-> g.text, color |-> g.color]

\* the slot is skipped
skipSlot(data, idx) == data.temperature_2m[idx] = Undefined

\* the loop labelling a row by its place in the results
RECURSIVE forecastLoop_labelByPlace(_, _, _, _, _, _)
forecastLoop_labelByPlace(data, i, acc, d, m, s) ==
    IF i >= Len(noonIndices) THEN acc
    ELSE IF skipSlot(data, noonIndices[i + 1])
         THEN forecastLoop_labelByPlace(data, i + 1, acc, d, m, s)
         ELSE forecastLoop_labelByPlace(data, i + 1,
                  Append(acc, [forecastRow(data, i, d, m, s) EXCEPT !.day = dayLabel(Len(acc), d)]),
                  d, m, s)

\* the loop of fetchForecast, from slot i on, results so far in acc
RECURSIVE forecastLoop(_, _, _, _, _, _)
forecastLoop(data, i, acc, d, m, s) ==
    IF i >= Len(noonIndices) THEN acc
    ELSE IF skipSlot(data, noonIndices[i + 1])
         THEN forecastLoop(data, i + 1, acc, d, m, s)
         ELSE forecastLoop(data, i + 1, Append(acc, forecastRow(data, i, d, m, s)), d, m, s)

-----------------------------------------------------------------------------
(* Insights: what the API may answer.  A slot is a triple of values at one *)
(* noon hour; a response picks one slot for each of the five hours.        *)

Slot(t, r, k) == [temp |-> t, rain |-> r, wind |-> k]

Absent == Slot(Undefined, Undefined, Undefined)

SlotChoices ==
    << {Absent, Slot(Num(187), Num(8), Num(45))},
       {Slot(Num(250), Num(50), Num(90)), Slot(Num(250), Undefined, Num(90))},
       {Slot(Num(100), Num(200), Num(216))},
       {Absent, Slot(Num(233), Num(17), Num(90)), Slot(Num(233), Num(17), Undefined)},
       {Absent, Slot(Num(99), Num(51), Num(0)), Slot(Undefined, Num(51), Num(0))} >>

Hours == {noonIndices[j] : j \in 1 .. Len(noonIndices)}

slotOfHour(h) == CHOOSE j \in 1 .. Len(noonIndices) : noonIndices[j] = h

\* the hourly arrays of a response, restricted to the hours that are read
Response(pick) ==
    [temperature_2m |-> [h \in Hours |-> pick[slotOfHour(h)].temp],
     precipitation  |-> [h \in Hours |-> pick[slotOfHour(h)].rain],
     wind_speed_10m |-> [h \in Hours |-> pick[slotOfHour(h)].wind]]

Picks == {p \in [1 .. Len(noonIndices) -> UNION {SlotChoices[j] : j \in 1 .. Len(noonIndices)}] :
             \A j \in 1 .. Len(noonIndices) : p[j] \in SlotChoices[j]}

Responses == {Response(p) : p \in Picks}

Coords == [lat |-> 286, lon |-> 813]

\* the closure a call runs in: the mode and the settings of its render
Closure(m, s) == [mode |-> m, settings |-> s]

\* the asynchronous operations in flight
InFlight == Cardinality(requests) + (IF locating = Null THEN 0 ELSE 1)

-----------------------------------------------------------------------------
(* Insights: the operations.                                               *)

\* useCurrentLocation up to the second await: permission granted,
\* setLoading(true), getCurrentPositionAsync pending.  The button is shown
\* while location is null.
UseCurrentLocation ==
    /\ location = Null
    /\ InFlight < MaxInFlight
    /\ loading' = TRUE
    /\ locating' = Closure(mode, settings)
    /\ UNCHANGED <<appVars, settings, detailsVars, mode, location, forecast, requests, last, today>>

\* the position arrives: setLocation(coords), fetchForecast is called
PositionArrives ==
    /\ locating # Null
    /\ location' = Coords
    /\ requests' = requests \cup {[closure |-> locating, flow |-> TRUE]}
    /\ locating' = Null
    /\ UNCHANGED <<appVars, settings, detailsVars, mode, loading, forecast, last, today>>

\* getCurrentPositionAsync rejects: the rest of useCurrentLocation never runs
PositionFails ==
    /\ locating # Null
    /\ locating' = Null
    /\ UNCHANGED <<appVars, settings, detailsVars, mode, location, loading, forecast, requests, last, today>>

\* fetchForecast after its awaits: the loop and setForecast; then, in a
\* call made by useCurrentLocation, setLoading(false)
FetchForecastDone ==
    \E req \in requests, data \in Responses :
        /\ forecast' = forecastLoop(data, 0, <<>>, today, req.closure.mode, req.closure.settings)
        /\ last' = [data |-> data, closure |-> req.closure]
        /\ requests' = requests \ {req}
        /\ loading' = IF req.flow THEN FALSE ELSE loading
        /\ UNCHANGED <<appVars, settings, detailsVars, mode, location, locating, today>>

\* fetch or json() rejects, or the response has no hourly arrays: the catch
\* block alerts and forecast stays
FetchForecastFail ==
    \E req \in requests :
        /\ requests' = requests \ {req}
        /\ loading' = IF req.flow THEN FALSE ELSE loading
        /\ UNCHANGED <<appVars, settings, detailsVars, mode, location, forecast, locating, last, today>>

\* setMode(m), the render and the effect on [mode]
SetMode ==
    \E m \in {"Rule", "Model"} :
        /\ m # mode
        /\ location # Null => InFlight < MaxInFlight
        /\ mode' = m
        /\ requests' = IF location # Null
                         THEN requests \cup {[closure |-> Closure(m, settings), flow |-> FALSE]}
                         ELSE requests
        /\ UNCHANGED <<appVars, settings, detailsVars, location, loading, forecast, locating, last, today>>

\* The screen is mounted with any risk tolerance; the settings are changed
\* on another tab.
InitForecast ==
    /\ settings \in {[DefaultSettings EXCEPT !.riskTolerance = r] : r \in Tolerances}
    /\ InitDetails
    /\ InitInsights
    /\ today \in 0 .. 6
    /\ InitApp

NextInsights ==
    \/ UseCurrentLocation
    \/ PositionArrives
    \/ PositionFails
    \/ FetchForecastDone
    \/ FetchForecastFail
    \/ SetMode

SpecInsights == InitForecast /\ [][NextInsights]_vars

\* The screen stays mounted while the settings prop changes: the risk
\* tolerance is saved on the Settings screen and the Insights screen is
\* rendered again with the new prop.
NextTolerance ==
    \/ NextInsights
    \/ SaveRiskTolerance

SpecTolerance == Init /\ [][NextTolerance]_vars

-----------------------------------------------------------------------------
(* Plans and their score snapshots; the past-plans list of the Insights    *)
(* screen.  The clock counts steps of two hours.  A plan holds the texts   *)
(* of its date and time fields: date is the number of the day the text     *)
(* names, or a member of InvalidDates for a text that names no day, time   *)
(* the two-hour slot of the day; a saved score is Undefined until it is    *)
(* saved.                                                                  *)

\* 24 * 60 * 60 * 1000 ms in steps of the clock
Day == 12

\* 2 * 60 * 60 * 1000 ms in steps of the clock
TwoHours == 1

\* the clock stops here
MaxNow == 13

\* date texts that new Date() cannot read, such as '15/03/2026'
InvalidDates == {99}

\* new Date(`${plan.date}T${plan.time}`).getTime()
planTime(plan) ==
    IF plan.date \in InvalidDates THEN NaN ELSE Num(plan.date * Day + plan.time)

\* the plans the app holds: two plans, due at 11 and at 12, nothing saved
SnapshotPlans ==
    << [id |-> "p1", date |-> 0, time |-> 11,
        savedRuleScore |-> Undefined, savedModelScore |-> Undefined],
       [id |-> "p2", date |-> 1, time |-> 0,
        savedRuleScore |-> Undefined, savedModelScore |-> Undefined] >>

\* the samples a snapshot is computed from: <<temp, rain, wind km/h>>
SnapshotSamples == {<<200, 0, 0>>, <<250, 50, 90>>, <<100, 200, 216>>}

\* time passes
Tick ==
    /\ now < MaxNow
    /\ now' = now + 1
    /\ UNCHANGED <<settings, detailsVars, insightsVars, plans, locations, stored, adding, loadPending, planVars>>

\* the snapshot of a plan: once, at or after its date, the totals of both
\* modes stored under the two keys
SaveSnapshot ==
    \E i \in 1 .. Len(plans), x \in SnapshotSamples :
        LET w == Weather(x[1], x[2], x[3])
        IN  /\ IsNum(planTime(plans[i]))
            /\ planTime(plans[i]).v <= now
            /\ plans[i].savedRuleScore = Undefined
            /\ plans[i].savedModelScore = Undefined
            /\ plans' = [plans EXCEPT
                  ![i].savedRuleScore = Num(calcScore(w, [settings EXCEPT !.useAI = FALSE]).total),
                  ![i].savedModelScore = Num(calcScore(w, [settings EXCEPT !.useAI = TRUE]).total)]
            /\ UNCHANGED <<settings, detailsVars, insightsVars, now, locations, stored, adding, loadPending, planVars>>

\* Array.sort((a, b) => b.date.localeCompare(a.date)): p put into a sequence
\* sorted by date, latest first, behind the plans of its own date
RECURSIVE insertByDateDesc(_, _)
insertByDateDesc(p, seq) ==
    IF seq = <<>> THEN <<p>>
    ELSE IF Head(seq).date >= p.date THEN <<Head(seq)>> \o insertByDateDesc(p, Tail(seq))
    ELSE <<p>> \o seq

RECURSIVE sortByDateDesc(_)
sortByDateDesc(seq) ==
    IF seq = <<>> THEN <<>>
    ELSE insertByDateDesc(seq[Len(seq)], sortByDateDesc(SubSeq(seq, 1, Len(seq) - 1)))

\* a comparison with an invalid Date is false
isPast(plan) == IsNum(planTime(plan)) /\ planTime(plan).v < now

\* pastPlans of the Insights screen
pastPlans == sortByDateDesc(SelectSeq(plans, isPast))

\* the past-plans row reading the key of the other mode
pastPlanScore_otherKey(item, m) ==
    IF m = "Rule" THEN item.savedModelScore ELSE item.savedRuleScore

\* renderItem: "Pick score based on current mode toggle"
pastPlanScore(item, m) ==
    IF m = "Rule" THEN item.savedRuleScore ELSE item.savedModelScore

\* renderItem: the colour and the text of the score
pastPlanColor(sc, s) ==
    IF sc = Undefined THEN "#999"
    ELSE IF sc.v <= thresholds(s)[1] THEN "#22c55e"
    ELSE IF sc.v <= thresholds(s)[2] THEN "#f97316"
    ELSE "#ef4444"

\* the dash printed for a score that is undefined
Dash == [t |-> "dash", v |-> 0]

pastPlanText(sc) == IF sc = Undefined THEN Dash ELSE sc

\* the rows of the past-plans list
pastRows ==
    [k \in 1 .. Len(pastPlans) |->
        [id |-> pastPlans[k].id,
         score |-> pastPlanText(pastPlanScore(pastPlans[k], mode)),
         color |-> pastPlanColor(pastPlanScore(pastPlans[k], mode), settings)]]

InitSnapshots ==
    /\ settings = DefaultSettings
    /\ InitDetails
    /\ InitInsights
    /\ today = 0
    /\ plans = SnapshotPlans
    /\ now = StartOfClock
    /\ locations = <<>>
    /\ stored = Null
    /\ adding = {}
    /\ loadPending = FALSE
    /\ InitPlanVars

NextSnapshots ==
    \/ Tick
    \/ SaveSnapshot
    \/ SetMode
    \/ SaveRiskTolerance

SpecSnapshots == InitSnapshots /\ [][NextSnapshots]_vars

-----------------------------------------------------------------------------
(* App: the saved locations.  addLocation tests and extends the locations  *)
(* of the render it was created in, awaits the storage write and then sets *)
(* the state; a second call may be made before the first one's write has   *)
(* completed (NewPlan stays on screen while addPlan awaits the reminders). *)

\* addLocation calls awaiting their write at a time
MaxAdding == 2

\* the coordinates a plan is saved with: <<lat, lon>> in tenths of a degree
PlaceCoords == {<<286, 813>>, <<400, 740>>}

\* location.name || 'Unnamed'
PlaceNames == {"Unnamed", "Current Location"}

SavedLocation(id, name, lat, lon) == [id |-> id, name |-> name, lat |-> lat, lon |-> lon]

\* the item JSON.stringify(locs) writes and JSON.parse reads back
Item(locs) == [data |-> locs]

\* what the storage may hold when the app starts
StoredAtStart == {Null, Item(<<>>), Item(<<SavedLocation(StartOfClock - 1, "Unnamed", 286, 813)>>)}

\* locations.some(l => l.lat === lat && l.lon === lon)
hasLocation(locs, lat, lon) ==
    \E i \in 1 .. Len(locs) : locs[i].lat = lat /\ locs[i].lon = lon

\* loadLocations after its await: if (data) setLocations(JSON.parse(data))
LoadLocationsDone ==
    /\ loadPending
    /\ loadPending' = FALSE
    /\ locations' = IF stored # Null THEN stored.data ELSE locations
    /\ UNCHANGED <<settings, detailsVars, insightsVars, plans, now, stored, adding, planVars>>

\* addLocation when the coordinates are among the locations: return
AddLocationSkip ==
    \E c \in PlaceCoords :
        /\ hasLocation(locations, c[1], c[2])
        /\ UNCHANGED vars

\* addLocation up to its await: the test, updated, setItem issued
AddLocationCall ==
    \E c \in PlaceCoords, name \in PlaceNames :
        /\ ~hasLocation(locations, c[1], c[2])
        /\ Cardinality(adding) < MaxAdding
        /\ adding' = adding \cup {Append(locations, SavedLocation(now, name, c[1], c[2]))}
        /\ UNCHANGED <<settings, detailsVars, insightsVars, plans, now, locations, stored, loadPending, planVars>>

\* addLocation after its await: the item is written, setLocations(updated)
AddLocationDone ==
    \E updated \in adding :
        /\ stored' = Item(updated)
        /\ locations' = updated
        /\ adding' = adding \ {updated}
        /\ UNCHANGED <<settings, detailsVars, insightsVars, plans, now, loadPending, planVars>>

InitLocations ==
    /\ settings = DefaultSettings
    /\ InitDetails
    /\ InitInsights
    /\ today = 0
    /\ plans = <<>>
    /\ now = StartOfClock
    /\ locations = <<>>
    /\ stored \in StoredAtStart
    /\ adding = {}
    /\ loadPending = TRUE
    /\ InitPlanVars

NextLocations ==
    \/ LoadLocationsDone
    \/ AddLocationSkip
    \/ AddLocationCall
    \/ AddLocationDone
    \/ Tick

SpecLocations == InitLocations /\ [][NextLocations]_vars

-----------------------------------------------------------------------------
(* App: the plans.  NewPlan.handleSave, addPlan, deletePlan, savePlans and *)
(* scheduleReminders, and the upcoming list of the Plans screen.  A text   *)
(* is a sequence of characters.  A plan made by handleSave is [id, title,  *)
(* date, time, lat, lon]; activity, importance and locationName are passed *)
(* through and left out.  savePlans awaits the storage write and sets the  *)
(* state afterwards, so a call made before that computes its list from the *)
(* plans of the render it was created in.                                  *)

\* plans saved in one run of the app
MaxPlans == 2

\* the characters trim() removes
Whitespace == {" ", "\t"}

RECURSIVE trimStart(_)
trimStart(t) == IF t # <<>> /\ Head(t) \in Whitespace THEN trimStart(Tail(t)) ELSE t

RECURSIVE trimEnd(_)
trimEnd(t) ==
    IF t # <<>> /\ t[Len(t)] \in Whitespace THEN trimEnd(SubSeq(t, 1, Len(t) - 1)) ELSE t

\* String.prototype.trim
trim(t) == trimEnd(trimStart(t))

\* parseFloat of the texts of the coordinate fields, in tenths of a degree
parseFloat(text) ==
    IF text = "40.0" THEN Num(400)
    ELSE IF text = "74.0" THEN Num(740)
    ELSE IF text = "0" THEN Num(0)
    ELSE NaN

\* x || d for a number x: NaN and 0 are falsy
orDefault(x, d) == IF IsNum(x) /\ x.v # 0 THEN x.v ELSE d

\* the name addLocation gets for an empty location name
Unnamed == <<"U", "n", "n", "a", "m", "e", "d">>

\* what the fields of the New Plan screen may hold when Save is pressed
Forms ==
    { [title |-> <<" ", "R", " ">>, date |-> 2, time |-> 0,
       lat |-> "40.0", lon |-> "74.0", locationName |-> <<"P", " ">>],
      [title |-> <<"H">>, date |-> 0, time |-> 11,
       lat |-> "", lon |-> "0", locationName |-> <<" ">>],
      [title |-> <<"W">>, date |-> 99, time |-> 0,
       lat |-> "40.0", lon |-> "74.0", locationName |-> <<>>],
      [title |-> <<" ", "\t">>, date |-> 2, time |-> 0,
       lat |-> "40.0", lon |-> "74.0", locationName |-> <<"P">>] }

\* the fields of the New Plan screen that picks its location (from GPS or
\* from the saved locations) instead of reading coordinate texts
PickerForms ==
    { [title |-> <<"W">>, date |-> 99, time |-> 0,
       location |-> [lat |-> 400, lon |-> 740, name |-> <<>>]] }

\* handleSave of the New Plan screen with the location picker
NewPlan_handleSave(form, id) ==
    IF trim(form.title) = <<>> THEN [form |-> form, addLocation |-> <<>>, onSave |-> <<>>]
    ELSE [form |-> form,
          addLocation |-> << [name |-> IF form.location.name = <<>> THEN Unnamed
                                       ELSE form.location.name,
                              lat |-> form.location.lat, lon |-> form.location.lon] >>,
          onSave |-> << [id |-> id, title |-> trim(form.title), date |-> form.date,
                         time |-> form.time, lat |-> form.location.lat,
                         lon |-> form.location.lon] >>]

\* handleSave without the trim in its test
handleSave_untrimmedTest(form, id) ==
    IF form.title = <<>> THEN [form |-> form, addLocation |-> <<>>, onSave |-> <<>>]
    ELSE LET parsedLat == orDefault(parseFloat(form.lat), 286)
             parsedLon == orDefault(parseFloat(form.lon), 813)
             name == IF trim(form.locationName) = <<>> THEN Unnamed
                     ELSE trim(form.locationName)
         IN  [form |-> form,
              addLocation |-> << [name |-> name, lat |-> parsedLat, lon |-> parsedLon] >>,
              onSave |-> << [id |-> id, title |-> trim(form.title), date |-> form.date,
                             time |-> form.time, lat |-> parsedLat, lon |-> parsedLon] >>]

\* NewPlan.handleSave: the calls of addLocation and of onSave it makes, each
\* with its arguments
handleSave(form, id) ==
    IF trim(form.title) = <<>> THEN [form |-> form, addLocation |-> <<>>, onSave |-> <<>>]
    ELSE LET parsedLat == orDefault(parseFloat(form.lat), 286)
             parsedLon == orDefault(parseFloat(form.lon), 813)
             name == IF trim(form.locationName) = <<>> THEN Unnamed
                     ELSE trim(form.locationName)
         IN  [form |-> form,
              addLocation |-> << [name |-> name, lat |-> parsedLat, lon |-> parsedLon] >>,
              onSave |-> << [id |-> id, title |-> trim(form.title), date |-> form.date,
                             time |-> form.time, lat |-> parsedLat, lon |-> parsedLon] >>]

\* scheduleReminders with the tests not strict
scheduleReminders_atOrAfter(plan, t) ==
    LET planT == planTime(plan)
    IN  {[title |-> "Plan Tomorrow", plan |-> plan.id, date |-> planT.v - Day] :
            x \in IF IsNum(planT) /\ planT.v - Day >= t THEN {1} ELSE {}}
        \cup
        {[title |-> "Plan Soon", plan |-> plan.id, date |-> planT.v - TwoHours] :
            x \in IF IsNum(planT) /\ planT.v - TwoHours >= t THEN {1} ELSE {}}

\* scheduleReminders: the notifications it schedules when Date.now() gives t;
\* a comparison with NaN is false
scheduleReminders(plan, t) ==
    LET planT == planTime(plan)
    IN  {[title |-> "Plan Tomorrow", plan |-> plan.id, date |-> planT.v - Day] :
            x \in IF IsNum(planT) /\ planT.v - Day > t THEN {1} ELSE {}}
        \cup
        {[title |-> "Plan Soon", plan |-> plan.id, date |-> planT.v - TwoHours] :
            x \in IF IsNum(planT) /\ planT.v - TwoHours > t THEN {1} ELSE {}}

\* new Date(`${plan.date}T${plan.time}`) >= now; false for an invalid Date
isUpcoming(plan) == IsNum(planTime(plan)) /\ planTime(plan).v >= now

\* upcomingPlans of the Plans screen
upcomingPlans == SelectSeq(plans, isUpcoming)

\* `${a.date}${a.time}`.localeCompare(`${b.date}${b.time}`) <= 0 for texts
\* of one width
dateTimeAtMost(a, b) == a.date < b.date \/ (a.date = b.date /\ a.time <= b.time)

\* p put into a sequence sorted by date and time, behind its equals
RECURSIVE insertByDateTime(_, _)
insertByDateTime(p, seq) ==
    IF seq = <<>> THEN <<p>>
    ELSE IF dateTimeAtMost(Head(seq), p) THEN <<Head(seq)>> \o insertByDateTime(p, Tail(seq))
    ELSE <<p>> \o seq

RECURSIVE sortByDateTime(_)
sortByDateTime(seq) ==
    IF seq = <<>> THEN <<>>
    ELSE insertByDateTime(seq[Len(seq)], sortByDateTime(SubSeq(seq, 1, Len(seq) - 1)))

\* sortedPlans of the Plans screen
sortedPlans == sortByDateTime(upcomingPlans)

\* nextPlan: sortedPlans[0], undefined for an empty list
nextPlan == IF sortedPlans = <<>> THEN Null ELSE sortedPlans[1]

\* onAdd of the Plans screen
OpenNew ==
    /\ screen = "list"
    /\ screen' = "new"
    /\ UNCHANGED <<settings, detailsVars, insightsVars, plans, now, locations, stored, adding,
                   loadPending, selectedPlan, storedPlans, saving, addingPlans, scheduled,
                   added, deleted, calls>>

\* onBack of the New Plan and of the Plan Details screen
Back ==
    /\ screen # "list"
    /\ screen' = "list"
    /\ UNCHANGED <<settings, detailsVars, insightsVars, plans, now, locations, stored, adding,
                   loadPending, selectedPlan, storedPlans, saving, addingPlans, scheduled,
                   added, deleted, calls>>

\* openDetails for a card of the Plans screen
OpenDetails ==
    \E k \in 1 .. Len(sortedPlans) :
        /\ screen = "list"
        /\ selectedPlan' = sortedPlans[k]
        /\ screen' = "details"
        /\ UNCHANGED <<settings, detailsVars, insightsVars, plans, now, locations, stored,
                       adding, loadPending, storedPlans, saving, addingPlans, scheduled,
                       added, deleted, calls>>

\* Save pressed on the New Plan screen, either version: handleSave with
\* addLocation up to its await and addPlan up to the end of
\* scheduleReminders; the id is Date.now().toString(), another one at every
\* press
HandleSave ==
    \E form \in Forms \cup PickerForms :
        LET c == IF form \in PickerForms
                 THEN NewPlan_handleSave(form, Cardinality(added) + 1)
                 ELSE handleSave(form, Cardinality(added) + 1)
        IN  /\ screen = "new"
            /\ Cardinality(added) < MaxPlans
            /\ calls' = c
            /\ IF c.addLocation = <<>> \/ hasLocation(locations, c.addLocation[1].lat,
                                                       c.addLocation[1].lon)
               THEN adding' = adding
               ELSE adding' = adding \cup
                       {Append(locations, SavedLocation(now, c.addLocation[1].name,
                                   c.addLocation[1].lat, c.addLocation[1].lon))}
            /\ IF c.onSave = <<>>
               THEN UNCHANGED <<saving, scheduled, addingPlans, added>>
               ELSE /\ saving' = saving \cup {Append(plans, c.onSave[1])}
                    /\ scheduled' = scheduled \cup scheduleReminders(c.onSave[1], now)
                    /\ addingPlans' = addingPlans + 1
                    /\ added' = added \cup {c.onSave[1].id}
            /\ UNCHANGED <<settings, detailsVars, insightsVars, plans, now, locations, stored,
                           loadPending, screen, selectedPlan, storedPlans, deleted>>

\* addPlan after scheduleReminders: setScreen('list')
AddPlanDone ==
    /\ addingPlans > 0
    /\ addingPlans' = addingPlans - 1
    /\ screen' = "list"
    /\ UNCHANGED <<settings, detailsVars, insightsVars, plans, now, locations, stored, adding,
                   loadPending, selectedPlan, storedPlans, saving, scheduled, added, deleted,
                   calls>>

\* Delete pressed on the Plan Details screen: deletePlan(plan.id)
DeletePlan ==
    /\ screen = "details"
    /\ selectedPlan # Null
    /\ saving' = saving \cup {SelectSeq(plans, LAMBDA p : p.id # selectedPlan.id)}
    /\ deleted' = deleted \cup {selectedPlan.id}
    /\ screen' = "list"
    /\ UNCHANGED <<settings, detailsVars, insightsVars, plans, now, locations, stored, adding,
                   loadPending, selectedPlan, storedPlans, addingPlans, scheduled, added, calls>>

\* savePlans after its await: the item is written, setPlans(newPlans)
SavePlansDone ==
    \E newPlans \in saving :
        /\ storedPlans' = Item(newPlans)
        /\ plans' = newPlans
        /\ saving' = saving \ {newPlans}
        /\ UNCHANGED <<settings, detailsVars, insightsVars, now, locations, stored, adding,
                       loadPending, screen, selectedPlan, addingPlans, scheduled, added,
                       deleted, calls>>

\* the app after its loads found nothing stored
InitPlans ==
    /\ settings = DefaultSettings
    /\ InitDetails
    /\ InitInsights
    /\ today = 0
    /\ InitApp

NextPlans ==
    \/ OpenNew
    \/ Back
    \/ OpenDetails
    \/ HandleSave
    \/ AddPlanDone
    \/ DeletePlan
    \/ SavePlansDone
    \/ AddLocationDone
    \/ Tick

SpecPlans == InitPlans /\ [][NextPlans]_vars

\* the New Plan screen alone: plans are saved and none is opened or deleted
NextNewPlan ==
    \/ OpenNew
    \/ HandleSave
    \/ AddPlanDone
    \/ SavePlansDone
    \/ AddLocationDone
    \/ Tick

SpecNewPlan == InitPlans /\ [][NextNewPlan]_vars

-----------------------------------------------------------------------------
(* The claims about the scoring core, checked under Spec.                  *)

\* the clamp of the claims
C_Clamp(x) == IF x < 0 THEN 0 ELSE IF x > 100 THEN 100 ELSE x

\* the weather of the state as the Insights screen holds it
C_InsightsWeather == [temp |-> Num(weather.temp), rain |-> Num(weather.rain),
                      wind |-> Num(weather.wind)]

\* C1: for every finite sample and both scoring modes, the total of calcScore
\* (PlanDetails, PlansList and the Insights screen) is an integer in 0..100,
\* however large the per-factor points are.
C1_TotalClamped ==
    weather # Null =>
        /\ score.total \in 0 .. 100
        /\ \A m \in {"Rule", "Model"} :
              /\ IsNum(Insights_calcScore(C_InsightsWeather, m))
              /\ Insights_calcScore(C_InsightsWeather, m).v \in 0 .. 100

\* C1 witness: the per-factor points alone exceed 100 and the total is 100
C1_Witness ==
    /\ weather # Null
    /\ score.rain > 100
    /\ score.total = 100

\* C2 as claimed, on the expected inputs (precipitation not negative): the
\* total is the clamped sum of the rounded points
C2_RoundThenSum ==
    (weather # Null /\ weather.rain >= 0) =>
        score.total = C_Clamp(score.rain + score.wind + score.temp)

\* C2 amended: the total is the unrounded weighted sum rounded once and
\* clamped, so it differs from the clamped sum of the individually rounded
\* points by at most 1.
C2_SumThenRound ==
    weather # Null =>
        score.total - C_Clamp(score.rain + score.wind + score.temp) \in {-1, 0, 1}

\* C2 witness: the total and the sum of the rounded points differ
C2_Witness ==
    /\ weather # Null
    /\ score.total # score.rain + score.wind + score.temp
    /\ score.total \in 1 .. 99

\* the thresholds as the claim lists them
C3_Low(r) == IF r = "Low" THEN 25 ELSE IF r = "Medium" THEN 33 ELSE 45

C3_High(r) == IF r = "Low" THEN 50 ELSE IF r = "Medium" THEN 66 ELSE 75

\* C3: for every total in 0..100 and the tolerance of the state, getGuidance
\* gives Keep (green) iff total <= low, Adjust (orange) iff low < total <= high,
\* Reschedule (red) iff total > high; PlansList colours the score alike.
C3_GuidanceBands ==
    LET r == settings.riskTolerance
    IN  /\ \A total \in 0 .. 100 :
              LET g == getGuidance(total, settings)
              IN  /\ g \in {[text |-> "Keep", color |-> "#22c55e"],
                            [text |-> "Adjust", color |-> "#f97316"],
                            [text |-> "Reschedule", color |-> "#ef4444"]}
                  /\ g.text = "Keep" <=> total <= C3_Low(r)
                  /\ g.text = "Adjust" <=> (C3_Low(r) < total /\ total <= C3_High(r))
                  /\ g.text = "Reschedule" <=> total > C3_High(r)
        /\ weather # Null =>
              /\ guidance = getGuidance(score.total, settings)
              /\ scoreColor(score, settings) = guidance.color

\* C3 witness: a score on a boundary is shown in the lower band
C3_Witness ==
    /\ weather # Null
    /\ settings.riskTolerance = "High"
    /\ score.total = 75
    /\ guidance.text = "Adjust"

\* the sum of the rounded points of the state
C_PointSum == score.rain + score.wind + score.temp

\* the branch a message belongs to
C_Branch(msg) ==
    IF msg = Favorable THEN "favorable"
    ELSE IF msg = LightRain \/ msg[1] = "Rain is the main concern." THEN "rain"
    ELSE IF msg[1] = "Wind is the main factor." THEN "wind"
    ELSE IF msg = Cold \/ msg = Warm THEN "temp"
    ELSE "none"

\* C5: getExplanation returns the favorable message whenever the sum of the
\* rounded per-factor points is below 15, whichever factor dominates, and
\* only then.
C5_FavorableEarlyExit ==
    weather # Null =>
        /\ C_PointSum < 15 => explanation = Favorable
        /\ C_PointSum >= 15 => explanation # Favorable

\* C5 witness: points 5, 5, 4 give the favorable message
C5_Witness ==
    /\ weather # Null
    /\ score.rain = 5 /\ score.wind = 5 /\ score.temp = 4
    /\ explanation = Favorable

\* C6: with a point sum of 15 or more, the rain branch is taken iff rain >=
\* wind and rain >= temp, else the wind branch iff wind >= rain and wind >=
\* temp, else the temperature branch; one message for every input.
C6_DominanceOrder ==
    weather # Null =>
        LET r == score.rain
            w == score.wind
            t == score.temp
            b == C_Branch(explanation)
        IN  /\ b \in {"favorable", "rain", "wind", "temp"}
            /\ C_PointSum >= 15 =>
                  /\ b = "rain" <=> (r >= w /\ r >= t)
                  /\ b = "wind" <=> (~(r >= w /\ r >= t) /\ w >= r /\ w >= t)
                  /\ b = "temp" <=> (~(r >= w /\ r >= t) /\ ~(w >= r /\ w >= t))

\* C6 witness: the three-way tie 10, 10, 10 takes the rain branch
C6_Witness ==
    /\ weather # Null
    /\ score.rain = 10 /\ score.wind = 10 /\ score.temp = 10
    /\ C_Branch(explanation) = "rain"

\* C9: in the rain branch the message citing the amount is returned iff the
\* precipitation is above 5 mm; up to 5 mm, 5 included, the light-rain
\* message.
C9_RainAmountAboveFive ==
    (weather # Null /\ C_Branch(explanation) = "rain") =>
        /\ weather.rain > 50 <=> explanation = RainMsg(weather.rain)
        /\ weather.rain <= 50 <=> explanation = LightRain

\* C9 witness: rain dominant at exactly 5 mm gives the light-rain message
C9_Witness ==
    /\ weather # Null
    /\ weather.rain = 50
    /\ C_PointSum >= 15
    /\ explanation = LightRain

\* C10: a temperature message is returned only when the point sum is at
\* least 15 and the temperature points exceed both others; then the cold
\* message iff the temperature is below 10 degrees, the warm one otherwise.
C10_TemperatureBranch ==
    weather # Null =>
        LET strict == score.temp > score.rain /\ score.temp > score.wind
        IN  /\ explanation \in {Cold, Warm} <=> (C_PointSum >= 15 /\ strict)
            /\ explanation = Cold => weather.temp < 100
            /\ explanation = Warm => weather.temp >= 100

\* C10 witness: 10 degrees exactly, below the baseline, gives the warm message
C10_Witness ==
    /\ weather # Null
    /\ weather.temp = 100
    /\ explanation = Warm

-----------------------------------------------------------------------------
(* The claims about the forecast series, checked under SpecInsights.       *)

\* the day offsets 0..4 of the five slots
C_Offsets == 0 .. Len(noonIndices) - 1

\* the three source values of offset i in the response that was reduced
C_Source(i) ==
    LET idx == noonIndices[i + 1]
    IN  <<last.data.temperature_2m[idx], last.data.precipitation[idx],
          last.data.wind_speed_10m[idx]>>

\* the offsets whose temperature is present / whose three values are present
C_TempPresent == {i \in C_Offsets : C_Source(i)[1] # Undefined}

C_AllPresent == {i \in C_Offsets : \A j \in 1 .. 3 : C_Source(i)[j] # Undefined}

\* the k-th smallest element of a set of offsets
C_Nth(S, k) == CHOOSE i \in S : Cardinality({j \in S : j < i}) = k - 1

\* C4 as claimed: a slot with any source value missing is skipped, so the
\* series has one row per slot whose three values are present, and every
\* row carries an integer score in 0..100.
C4_SkipsIncompleteSlots ==
    last # Null =>
        /\ Len(forecast) = Cardinality(C_AllPresent)
        /\ \A k \in 1 .. Len(forecast) :
              /\ IsNum(forecast[k].score)
              /\ forecast[k].score.v \in 0 .. 100

\* the label the claim gives offset i
C7_Label(i) ==
    LET name == dayNames[((today + i) % 7) + 1]
    IN  IF i = 0 THEN <<name, " (Today)">>
        ELSE IF i = 1 THEN <<name, " (Tomorrow)">>
        ELSE <<name>>

\* C7: the rows are the slots that were not skipped, in chronological order,
\* and the label of a row is that of its own day offset: "(Today)" only for
\* offset 0, "(Tomorrow)" only for offset 1, whatever was skipped before it.
C7_OrderAndLabels ==
    last # Null =>
        /\ Len(forecast) = Cardinality(C_TempPresent)
        /\ \A k \in 1 .. Len(forecast) :
              forecast[k].day = C7_Label(C_Nth(C_TempPresent, k))

\* C7 witness: slot 3 missing, four rows for the offsets 0, 1, 2, 4
C7_Witness ==
    /\ last # Null
    /\ C_Source(3) = <<Undefined, Undefined, Undefined>>
    /\ C_TempPresent = {0, 1, 2, 4}
    /\ Len(forecast) = 4
    /\ forecast[1].day[2] = " (Today)"
    /\ forecast[2].day[2] = " (Tomorrow)"
    /\ Len(forecast[4].day) = 1

\* C8: the score and the guidance of a row are the total and the guidance
\* that the plan-details calcScore and getGuidance give for the sample of
\* the row's own slot, in the same mode and tolerance.
C8_RowsScoredIndependently ==
    /\ last # Null =>
        \A k \in 1 .. Len(forecast) :
            LET i == C_Nth(C_TempPresent, k)
                src == C_Source(i)
                st == [last.closure.settings EXCEPT !.useAI = (last.closure.mode = "Model")]
                sc == calcScore(Weather(src[1].v, src[2].v, src[3].v), st)
                g == getGuidance(sc.total, st)
            IN  i \in C_AllPresent =>
                    /\ forecast[k].score = Num(sc.total)
                    /\ forecast[k].guidance = g.text
                    /\ forecast[k].color = g.color
    \* the two pairs of functions agree on every sample of the plan-details
    \* inputs and on every total (state-independent: evaluated before the
    \* first fetch)
    /\ (last = Null /\ requests = {} /\ locating = Null) =>
        /\ \A t \in TempValues, r \in RainValues, k \in WindKmhValues, m \in {"Rule", "Model"} :
              LET w == Weather(t, r, k)
                  st == [settings EXCEPT !.useAI = (m = "Model")]
              IN  Insights_calcScore([temp |-> Num(w.temp), rain |-> Num(w.rain),
                                      wind |-> JsKmhToMs(Num(k))], m)
                    = Num(calcScore(w, st).total)
        /\ \A total \in 0 .. 100 :
              Insights_getGuidance(Num(total), settings) = getGuidance(total, settings)

\* C8 witness: a series of several rows reduced in Model mode
C8_Witness ==
    /\ last # Null
    /\ last.closure.mode = "Model"
    /\ C_AllPresent = C_Offsets
    /\ Len(forecast) = 5
    /\ forecast[5].score = Num(76)

-----------------------------------------------------------------------------
(* The claims about units, weights and ingestion, checked under Spec.      *)

\* v (tenths) is x to one decimal, x given in 1/den (den = 100 or 1000)
C_OneDecimal(v, x, den) ==
    /\ x * 10 - den * 5 < v * den
    /\ v * den <= x * 10 + den * 5

\* C11: when the wind branch is taken, the message cites the stored m/s
\* speed to one decimal with the label "m/s" when windUnit is ms, and that
\* speed times 3.6 to one decimal with the label "km/h" when windUnit is kmh.
C11_WindUnitInMessage ==
    (weather # Null /\ C_Branch(explanation) = "wind") =>
        /\ Len(explanation) = 3
        /\ settings.windUnit = "ms" =>
              /\ explanation[3] = "m/s"
              /\ C_OneDecimal(explanation[2], weather.wind, 100)
        /\ settings.windUnit = "kmh" =>
              /\ explanation[3] = "km/h"
              /\ C_OneDecimal(explanation[2], weather.wind * 36, 1000)

\* C11 witness: 6 m/s of wind dominate and are cited as 21.6 km/h
C11_Witness ==
    /\ weather # Null
    /\ weather.wind = 600
    /\ settings.windUnit = "kmh"
    /\ explanation = WindMsg(216, "km/h")

\* the settings of the state with the two display units replaced
C12_WithUnits(tu, wu) == [settings EXCEPT !.tempUnit = tu, !.windUnit = wu]

\* C12: the display units never affect the numeric result.  For the sample
\* and the settings of the state and any other choice of tempUnit and
\* windUnit, calcScore gives the same breakdown and total, getGuidance the
\* same label and colour, and getExplanation takes the same branch.
C12_UnitsDoNotAffectScore ==
    weather # Null =>
        \A tu \in TempUnits, wu \in WindUnits :
            LET s2 == C12_WithUnits(tu, wu)
                sc2 == calcScore(weather, s2)
            IN  /\ sc2 = score
                /\ getGuidance(sc2.total, s2) = guidance
                /\ C_Branch(getExplanation(weather, sc2, s2)) = C_Branch(explanation)

\* C12 witness: Fahrenheit and km/h are selected, the wind branch is taken
\* and its text is not the one shown under m/s
C12_Witness ==
    /\ weather # Null
    /\ settings.tempUnit = "F"
    /\ settings.windUnit = "kmh"
    /\ C_Branch(explanation) = "wind"
    /\ explanation # getExplanation(weather, score, C12_WithUnits("C", "ms"))
    /\ score = calcScore(weather, C12_WithUnits("C", "ms"))

-----------------------------------------------------------------------------
(* The forecast series under a changing risk tolerance, SpecTolerance.     *)

\* C13 as claimed: in every state of the Insights screen, after any forecast
\* fetches and risk-tolerance changes, the guidance label and colour shown
\* for each forecast row are those getGuidance gives the row's score under
\* the risk tolerance that is selected now.
C13_GuidanceUnderCurrentTolerance ==
    \A k \in 1 .. Len(forecast) :
        LET g == Insights_getGuidance(forecast[k].score, settings)
        IN  /\ forecast[k].guidance = g.text
            /\ forecast[k].color = g.color

-----------------------------------------------------------------------------
(* The favorable message and the total, checked under Spec.                *)

\* C14 as claimed: there are inputs for which getExplanation returns the
\* favorable message while calcScore's total for the same sample and mode
\* is 100 (a sample of the forecast API's values, either mode, the other
\* settings as they are).
C14_FavorableAtHundred ==
    \E t \in TempValues, r \in RainValues, k \in WindKmhValues, useAI \in BOOLEAN :
        LET w == Weather(t, r, k)
            s == [settings EXCEPT !.useAI = useAI]
            sc == calcScore(w, s)
        IN  /\ getExplanation(w, sc, s) = Favorable
            /\ sc.total = 100

\* C14: whenever getExplanation returns the favorable message the total is
\* at most 15, so never 100: the rounded points sum to less than 15 and the
\* total is the rounding of the same three terms.
C14_FavorableTotalLow ==
    (weather # Null /\ explanation = Favorable) =>
        /\ score.total <= 15
        /\ score.total <= Max(0, C_PointSum + 1)

\* C14 witness: the favorable message at the largest total it goes with
C14_Witness ==
    /\ weather # Null
    /\ explanation = Favorable
    /\ C_PointSum = 14
    /\ score.total = 15

-----------------------------------------------------------------------------
(* The worked samples, checked under Spec.                                 *)

\* the breakdown with every part zero
C15_Zero == [rain |-> 0, wind |-> 0, temp |-> 0, total |-> 0]

\* C15: the sample precipitation 0, wind 0, temperature 20 gives rainPoints,
\* windPoints, tempPoints and total 0 in every scoring mode; the sample
\* temperature 20, wind 0, precipitation 1.0 gives rainPoints 6 and total 6
\* in Rule mode.
C15_WorkedSamples ==
    /\ weather = [temp |-> 200, rain |-> 0, wind |-> 0] =>
          /\ score = C15_Zero
          /\ \A useAI \in BOOLEAN :
                calcScore(weather, [settings EXCEPT !.useAI = useAI]) = C15_Zero
          /\ \A m \in {"Rule", "Model"} :
                Insights_calcScore(C_InsightsWeather, m) = Num(0)
    /\ (weather = [temp |-> 200, rain |-> 10, wind |-> 0] /\ ~settings.useAI) =>
          score = [rain |-> 6, wind |-> 0, temp |-> 0, total |-> 6]

\* C15 witness: 1.0 mm of rain at 20 degrees without wind, scored in Rule mode
C15_Witness ==
    /\ weather = [temp |-> 200, rain |-> 10, wind |-> 0]
    /\ ~settings.useAI
    /\ score.rain = 6
    /\ score.total = 6

-----------------------------------------------------------------------------
(* The two ways of selecting the mode, checked under Spec.                 *)

\* the three weights a settings record selects, in hundredths
C16_Weights(s) == <<rainW(s), windW(s), tempW(s)>>

\* C16: calcScore with useAI = false gives the breakdown of the mode version
\* with mode = Rule (weights 6, 4, 3), with useAI = true that of mode = Model
\* (weights 7.56, 1.71, 3.73), and no other setting changes the weights.
C16_UseAISelectsMode ==
    weather # Null =>
        /\ calcScore(weather, [settings EXCEPT !.useAI = FALSE])
              = PlanDetailsMode_calcScore(weather, "Rule")
        /\ calcScore(weather, [settings EXCEPT !.useAI = TRUE])
              = PlanDetailsMode_calcScore(weather, "Model")
        /\ C16_Weights(settings) = IF settings.useAI THEN <<756, 171, 373>>
                                                     ELSE <<600, 400, 300>>
        /\ \A s2 \in Settings :
              s2.useAI = settings.useAI =>
                  /\ C16_Weights(s2) = C16_Weights(settings)
                  /\ calcScore(weather, s2) = score

\* C16 witness: a sample scored with useAI on under a tolerance and units
\* that are not the defaults, where the two modes give different breakdowns
C16_Witness ==
    /\ weather # Null
    /\ settings = [useAI |-> TRUE, riskTolerance |-> "High",
                   windUnit |-> "kmh", tempUnit |-> "F"]
    /\ score = PlanDetailsMode_calcScore(weather, "Model")
    /\ score.wind # PlanDetailsMode_calcScore(weather, "Rule").wind
    /\ score.total # PlanDetailsMode_calcScore(weather, "Rule").total

-----------------------------------------------------------------------------
(* Ingestion, checked under Spec.                                          *)

\* C17: at every fetch site (plan details, plan list, 5-day forecast) the
\* Weather that reaches calcScore holds the API's km/h wind speed divided by
\* 3.6, and the API's temperature and precipitation unchanged.
C17_WindNormalisedAtIngestion ==
    /\ weather # Null =>
          /\ response # Null
          /\ weather.wind * 36 = response.wind_speed_10m * 100
          /\ weather.temp = response.temperature_2m
          /\ weather.rain = response.precipitation
          /\ PlansList_Weather(response.temperature_2m, response.precipitation,
                               response.wind_speed_10m) = weather
    \* the forecast loop, on every hour of every response (state-independent:
    \* evaluated while the first fetch is in flight)
    /\ (weather = Null /\ fetching /\ error = "") =>
          \A data \in Responses, h \in Hours :
              LET w == slotWeather(data, h)
              IN  /\ w.temp = data.temperature_2m[h]
                  /\ w.rain = data.precipitation[h]
                  /\ IsNum(data.wind_speed_10m[h]) =>
                        /\ IsNum(w.wind)
                        /\ w.wind.v * 36 = data.wind_speed_10m[h].v * 100

\* C17 witness: 21.6 km/h answered by the API are stored as 6 m/s
C17_Witness ==
    /\ response # Null
    /\ response.wind_speed_10m = 216
    /\ weather # Null
    /\ weather.wind = 600
    /\ weather.temp = response.temperature_2m

-----------------------------------------------------------------------------
(* The score snapshots, checked under SpecSnapshots.                       *)

\* the two saved scores of a plan
C19_Saved(p) == <<p.savedRuleScore, p.savedModelScore>>

-----------------------------------------------------------------------------
(* The saved locations, checked under SpecLocations.                       *)

\* no two locations of a list share lat and lon
C20_Distinct(locs) ==
    \A i, j \in 1 .. Len(locs) :
        (locs[i].lat = locs[j].lat /\ locs[i].lon = locs[j].lon) => i = j

\* the invariant alone: neither the state nor the storage holds a duplicate
C20_NoDuplicates ==
    /\ C20_Distinct(locations)
    /\ stored # Null => C20_Distinct(stored.data)

\* C20 as claimed: no two saved locations share (lat, lon), and a step of
\* addLocation either leaves state and storage as they are or appends
\* exactly one location with new coordinates to the list; this after any
\* sequence of calls, calls made before an earlier call's write completed
\* included.
C20_AddLocationAppendsOne ==
    [][ /\ C20_NoDuplicates'
        /\ (loadPending' = loadPending /\ locations' # locations) =>
              /\ Len(locations') = Len(locations) + 1
              /\ SubSeq(locations', 1, Len(locations)) = locations
              /\ ~hasLocation(locations, locations'[Len(locations')].lat,
                                          locations'[Len(locations')].lon)
      ]_vars

-----------------------------------------------------------------------------
(* The mode toggle of the Insights screen, checked under SpecInsights.     *)

\* the scores of the rows of a series
C21_Scores(rows) == [k \in 1 .. Len(rows) |-> rows[k].score]

\* C21 as claimed: once every operation in flight has completed, the trend
\* scores displayed are those computed with the mode that is selected now,
\* whenever the mode was changed.
C21_TrendInCurrentMode ==
    (requests = {} /\ locating = Null /\ last # Null) =>
        C21_Scores(forecast)
            = C21_Scores(forecastLoop(last.data, 0, <<>>, today, mode, last.closure.settings))

-----------------------------------------------------------------------------
(* Relations between scores, checked under Spec.                           *)

\* C23: when the unrounded weighted sum lies within [0,100], so that nothing
\* is clamped, the total differs from rainPoints + windPoints + tempPoints
\* by at most 1.
C23_TotalNearPointSum ==
    (weather # Null /\ weightedSum(weather, settings) >= 0
                    /\ weightedSum(weather, settings) <= 1000000) =>
        /\ score.total - C_PointSum <= 1
        /\ C_PointSum - score.total <= 1

\* C23 witness: 24.9 degrees, 0.8 mm, no wind in Rule mode: the points are
\* 5, 0 and 15 and the total is 19
C23_Witness ==
    /\ weather = [temp |-> 249, rain |-> 8, wind |-> 0]
    /\ ~settings.useAI
    /\ weightedSum(weather, settings) \in 0 .. 1000000
    /\ C_PointSum = 20
    /\ score.total = 19

\* the sample of the state with one value replaced
C24_WithRain(r) == [weather EXCEPT !.rain = r]

C24_WithWind(k) == [weather EXCEPT !.wind = KmhToMs(k)]

C24_WithTemp(t) == [weather EXCEPT !.temp = t]

\* the monotone part: for a fixed mode the total never decreases when the
\* precipitation, the wind speed or the distance of the temperature from 20
\* grows (precipitation and wind not negative)
C24_Monotone ==
    (weather # Null /\ weather.rain >= 0) =>
        /\ \A r \in RainValues :
              r >= weather.rain => calcScore(C24_WithRain(r), settings).total >= score.total
        /\ \A k \in WindKmhValues :
              KmhToMs(k) >= weather.wind =>
                  calcScore(C24_WithWind(k), settings).total >= score.total
        /\ \A t \in TempValues :
              Abs(t - 200) >= Abs(weather.temp - 200) =>
                  calcScore(C24_WithTemp(t), settings).total >= score.total

\* C24 as claimed: the total is monotone in precipitation, wind and the
\* distance of the temperature from 20, and the temperatures 20 - d and
\* 20 + d give the same breakdown.
C24_MonotoneAndSymmetric ==
    /\ C24_Monotone
    /\ (weather # Null /\ weather.rain >= 0) =>
           calcScore(C24_WithTemp(400 - weather.temp), settings) = score

\* severity of a guidance label
C25_Rank(text) == IF text = "Keep" THEN 0 ELSE IF text = "Adjust" THEN 1 ELSE 2

C25_Under(r) == [settings EXCEPT !.riskTolerance = r]

C25_Paired(g) ==
    g \in {[text |-> "Keep", color |-> "#22c55e"],
           [text |-> "Adjust", color |-> "#f97316"],
           [text |-> "Reschedule", color |-> "#ef4444"]}

\* C25: under the tolerance of the state a higher total never gets a less
\* severe guidance (each total against the next one, which gives every pair); for every total the guidance under High is never more
\* severe than under Medium, and under Medium never more severe than under
\* Low; the colour is the one paired with the label. Both for getGuidance of
\* the plan screens and for the one of the Insights screen.
C25_SeverityMonotone ==
    /\ \A a \in 0 .. 99 :
          /\ C25_Rank(getGuidance(a, settings).text)
                <= C25_Rank(getGuidance(a + 1, settings).text)
          /\ C25_Rank(Insights_getGuidance(Num(a), settings).text)
                <= C25_Rank(Insights_getGuidance(Num(a + 1), settings).text)
    /\ \A total \in 0 .. 100 :
          /\ C25_Rank(getGuidance(total, C25_Under("High")).text)
                <= C25_Rank(getGuidance(total, C25_Under("Medium")).text)
          /\ C25_Rank(getGuidance(total, C25_Under("Medium")).text)
                <= C25_Rank(getGuidance(total, C25_Under("Low")).text)
          /\ C25_Rank(Insights_getGuidance(Num(total), C25_Under("High")).text)
                <= C25_Rank(Insights_getGuidance(Num(total), C25_Under("Medium")).text)
          /\ C25_Rank(Insights_getGuidance(Num(total), C25_Under("Medium")).text)
                <= C25_Rank(Insights_getGuidance(Num(total), C25_Under("Low")).text)
          /\ \A r \in Tolerances :
                /\ C25_Paired(getGuidance(total, C25_Under(r)))
                /\ C25_Paired(Insights_getGuidance(Num(total), C25_Under(r)))
    /\ weather # Null => C25_Paired(guidance)

\* C25 witness: a total of 55 shown under High is Adjust (orange) and would be
\* Reschedule under Low
C25_Witness ==
    /\ weather # Null
    /\ settings.riskTolerance = "High"
    /\ score.total = 55
    /\ guidance = [text |-> "Adjust", color |-> "#f97316"]
    /\ getGuidance(score.total, C25_Under("Low")).text = "Reschedule"
    /\ getGuidance(score.total, C25_Under("Medium")).text = "Adjust"

-----------------------------------------------------------------------------
(* The plans, checked under SpecPlans.                                     *)

\* the ids of the plans of a list
C22_Ids(list) == {list[i].id : i \in 1 .. Len(list)}

\* C22 as claimed: once every storage write has completed, the plans state
\* holds every plan that was added and not deleted and no plan that was
\* deleted, and it is the list persisted under 'plans'.
C22_NoLostUpdate ==
    (saving = {} /\ added # {}) =>
        /\ C22_Ids(plans) = added \ deleted
        /\ storedPlans = Item(plans)

\* how often the plan with this id is in a list
C26_Count(list, id) == Cardinality({k \in 1 .. Len(list) : list[k].id = id})

\* the upcoming list is in ascending order of date, then time
C26_Ascending(list) ==
    \A j, k \in 1 .. Len(list) : j < k => dateTimeAtMost(list[j], list[k])

\* the plans with a date text that names a day are in exactly one of the two
\* lists, in the upcoming one when due at or after now; the upcoming list is
\* in ascending order and nextPlan is its first plan
C26_ValidUpcomingOrPast ==
    /\ \A i \in 1 .. Len(plans) :
          plans[i].date \notin InvalidDates =>
              /\ C26_Count(sortedPlans, plans[i].id) + C26_Count(pastPlans, plans[i].id) = 1
              /\ C26_Count(sortedPlans, plans[i].id) = 1 <=> planTime(plans[i]).v >= now
    /\ C26_Ascending(sortedPlans)
    /\ sortedPlans # <<>> => nextPlan = sortedPlans[1]

\* C26 as claimed: at the instant now every plan is in exactly one of the
\* upcoming list of the Plans screen and the past-plans list of the Insights
\* screen; the upcoming list holds the plans due at or after now in
\* ascending order of date, then time, and its first plan is nextPlan, the
\* plan whose score is shown; the past list holds the plans due before now.
C26_UpcomingOrPast ==
    /\ C26_ValidUpcomingOrPast
    /\ \A i \in 1 .. Len(plans) :
          C26_Count(sortedPlans, plans[i].id) + C26_Count(pastPlans, plans[i].id) = 1

\* the notifications scheduled for a plan
C27_For(set, id) == {n \in set : n.plan = id}

\* C27: a step that passes a plan to addPlan schedules notifications for
\* that plan only, each strictly after the reading of the clock: 'Plan
\* Tomorrow' at planTime - 24 h iff that is after now, 'Plan Soon' at
\* planTime - 2 h iff that is after now; so a 24-hour reminder comes with a
\* 2-hour reminder, and a plan less than two hours away, past or with no
\* readable date gets none.  No other step schedules anything.
C27_RemindersInFuture ==
    [][ IF added' # added
        THEN LET p == calls'.onSave[1]
                 t == planTime(p)
                 new == scheduled' \ scheduled
                 tomorrow == {n \in new : n.title = "Plan Tomorrow"}
                 soon == {n \in new : n.title = "Plan Soon"}
             IN  /\ new = C27_For(scheduled', p.id)
                 /\ new = tomorrow \cup soon
                 /\ \A n \in new : n.date > now
                 /\ tomorrow # {} <=> (IsNum(t) /\ t.v - Day > now)
                 /\ soon # {} <=> (IsNum(t) /\ t.v - TwoHours > now)
                 /\ \A n \in tomorrow : n.date = t.v - Day
                 /\ \A n \in soon : n.date = t.v - TwoHours
                 /\ Cardinality(tomorrow) <= 1
                 /\ Cardinality(soon) <= 1
                 /\ tomorrow # {} => soon # {}
                 /\ (~IsNum(t) \/ t.v - now < TwoHours) => new = {}
        ELSE scheduled' = scheduled
      ]_vars

\* C27 witness: the plan saved first got both reminders, the 24-hour one one
\* step after the save, and the plan saved second, due when it was saved,
\* got none
C27_Witness ==
    /\ added = {1, 2}
    /\ C27_For(scheduled, 1) =
          {[title |-> "Plan Tomorrow", plan |-> 1, date |-> StartOfClock + 1],
           [title |-> "Plan Soon", plan |-> 1, date |-> 2 * Day - TwoHours]}
    /\ C27_For(scheduled, 2) = {}
    /\ calls.onSave[1].id = 2
    /\ planTime(calls.onSave[1]) = Num(StartOfClock)

\* the text has no whitespace at either end
C28_Trimmed(t) == t # <<>> /\ Head(t) \notin Whitespace /\ t[Len(t)] \notin Whitespace

\* C28: a press of Save with an empty or all-whitespace title makes no call
\* and changes nothing (plans, locations, storage, pending writes,
\* reminders, screen); a press with any other title passes exactly one plan
\* to onSave, its title the trimmed text, which addPlan appends to the
\* plans of the render, and calls addLocation once with the coordinates of
\* that plan.
C28_HandleSave ==
    [][ calls' # calls =>
          IF trim(calls'.form.title) = <<>>
          THEN /\ calls'.onSave = <<>>
               /\ calls'.addLocation = <<>>
               /\ UNCHANGED <<plans, locations, stored, adding, storedPlans, saving,
                              addingPlans, scheduled, added, deleted, screen, selectedPlan>>
          ELSE /\ Len(calls'.onSave) = 1
               /\ Len(calls'.addLocation) = 1
               /\ calls'.onSave[1].title = trim(calls'.form.title)
               /\ C28_Trimmed(calls'.onSave[1].title)
               /\ calls'.addLocation[1].lat = calls'.onSave[1].lat
               /\ calls'.addLocation[1].lon = calls'.onSave[1].lon
               /\ saving' = saving \cup {Append(plans, calls'.onSave[1])}
               /\ added' = added \cup {calls'.onSave[1].id}
               /\ Cardinality(added') = Cardinality(added) + 1
               /\ hasLocation(locations, calls'.onSave[1].lat, calls'.onSave[1].lon)
                     => adding' = adding
               /\ ~hasLocation(locations, calls'.onSave[1].lat, calls'.onSave[1].lon)
                     => \E updated \in adding' :
                           /\ Len(updated) = Len(locations) + 1
                           /\ updated[Len(updated)].lat = calls'.onSave[1].lat
                           /\ updated[Len(updated)].lon = calls'.onSave[1].lon
      ]_vars

\* C28 witness: ' R ' was saved as the plan 'R' with the coordinates its
\* addLocation call got, and the press with the title ' \t' that followed
\* left everything as it was
C28_Witness ==
    /\ calls # Null
    /\ calls.form.title = <<" ", "\t">>
    /\ calls.onSave = <<>>
    /\ added = {1}
    /\ screen = "new"
    /\ saving = {<<[id |-> 1, title |-> <<"R">>, date |-> 2, time |-> 0,
                    lat |-> 400, lon |-> 740]>>}
    /\ \E updated \in adding : updated[Len(updated)].lat = 400 /\ updated[Len(updated)].lon = 740

=============================================================================
